---- MODULE Spec2Model ----
(***************************************************************************)
(* Model of the evaluation core in src/src/main.rs: the AST (Element,       *)
(* Block), the free-variable analysis, the Scope stack of activation        *)
(* records, closure capture and the recursive evaluator eval / eval_call /  *)
(* eval_block.  The evaluator is modelled as a small-step machine: the      *)
(* native call stack of eval is the variable `stack`, the value being       *)
(* passed between a callee and its caller is the variable `ctrl`.           *)
(***************************************************************************)
EXTENDS Integers, Sequences, FiniteSets, TLC

VARIABLES
    records,   \* Scope.records: the stack of ScopeRecord
    stack,     \* the native call stack of eval / eval_call / eval_block
    ctrl,      \* what the machine does next: idle, eval e, run, ret r, abort
    fvIn,      \* input of the free-variable analysis under test
    fvOut      \* its output

vars == <<records, stack, ctrl, fvIn, fvOut>>

-----------------------------------------------------------------------------
(* Bounds *)

MaxStack == 7       \* frames of the native call stack before it overflows
MaxRecords == 2     \* records the host itself pushes with enter_record
IntBits == 12       \* width of the modelled i64 (two's complement)
MaxCmds == 2        \* commands per block in the analysis inputs

IntMin == 0 - 2^(IntBits - 1)
IntMax == 2^(IntBits - 1) - 1

-----------------------------------------------------------------------------
(* AST: Element and Block *)

Block_new == [params |-> <<>>, commands |-> <<>>]
MkBlock(params, commands) == [params |-> params, commands |-> commands]

Variable(v) == [k |-> "Variable", name |-> v]
Bare(s) == [k |-> "Bare", s |-> s]
Number(n) == [k |-> "Number", n |-> n]
Set(v, b) == [k |-> "Set", name |-> v, e |-> b]
Block(b) == [k |-> "Block", b |-> b]
Call(elems) == [k |-> "Call", elems |-> elems]

Range(s) == {s[i] : i \in 1..Len(s)}

-----------------------------------------------------------------------------
(* Free-variable analysis.  Each operator returns the reported names and   *)
(* the known_variables vector as the call leaves it (it is a &mut).        *)

RECURSIVE Element_get_free_variables(_, _)
RECURSIVE Block_get_free_variables(_, _)
RECURSIVE free_variables_loop(_, _, _, _)

\* for elem in elems { free_variables.extend_from_slice(&elem.get_free_variables(known)) }
free_variables_loop(elems, i, known, free) ==
    IF i > Len(elems)
    THEN [free |-> free, known |-> known]
    ELSE LET r == Element_get_free_variables(elems[i], known)
         IN  free_variables_loop(elems, i + 1, r.known, free \o r.free)

\* Mutant: the params are not added to the known variables.
Block_get_free_variables_NoParams(b, known) ==
    free_variables_loop(b.commands, 1, known, <<>>).free

Block_get_free_variables(b, known) ==
    free_variables_loop(b.commands, 1, known \o b.params, <<>>).free

\* Mutant: Set makes its name known before its right-hand side is analysed.
Element_get_free_variables_SetFirst(e, known) ==
    CASE e.k = "Variable" ->
            IF e.name \in Range(known)
            THEN [free |-> <<>>, known |-> known]
            ELSE [free |-> <<e.name>>, known |-> known]
      [] e.k = "Set" ->
            Element_get_free_variables(e.e, Append(known, e.name))
      [] e.k \in {"Number", "Bare"} -> [free |-> <<>>, known |-> known]
      [] e.k = "Block" ->
            [free |-> Block_get_free_variables(e.b, known), known |-> known]
      [] e.k = "Call" -> free_variables_loop(e.elems, 1, known, <<>>)

\* Mutant: a nested block leaves its params and its Set names in the
\* caller's known variables.
Element_get_free_variables_BlockLeaks(e, known) ==
    CASE e.k = "Variable" ->
            IF e.name \in Range(known)
            THEN [free |-> <<>>, known |-> known]
            ELSE [free |-> <<e.name>>, known |-> known]
      [] e.k = "Set" ->
            LET r == Element_get_free_variables(e.e, known)
            IN  [free |-> r.free, known |-> Append(r.known, e.name)]
      [] e.k \in {"Number", "Bare"} -> [free |-> <<>>, known |-> known]
      [] e.k = "Block" ->
            free_variables_loop(e.b.commands, 1, known \o e.b.params, <<>>)
      [] e.k = "Call" -> free_variables_loop(e.elems, 1, known, <<>>)

Element_get_free_variables(e, known) ==
    CASE e.k = "Variable" ->
            IF e.name \in Range(known)
            THEN [free |-> <<>>, known |-> known]
            ELSE [free |-> <<e.name>>, known |-> known]
      [] e.k = "Set" ->
            LET r == Element_get_free_variables(e.e, known)
            IN  [free |-> r.free, known |-> Append(r.known, e.name)]
      [] e.k \in {"Number", "Bare"} -> [free |-> <<>>, known |-> known]
      [] e.k = "Block" ->
            [free |-> Block_get_free_variables(e.b, known), known |-> known]
      [] e.k = "Call" -> free_variables_loop(e.elems, 1, known, <<>>)

-----------------------------------------------------------------------------
(* Values, results, options *)

Value_Nothing == [t |-> "Nothing"]
Value_Int(n) == [t |-> "Int", n |-> n]
Value_String(s) == [t |-> "String", s |-> s]
Value_Block(b, captured) == [t |-> "Block", b |-> b, captured |-> captured]

Internal_Add == "Add"

Ok(v) == [ok |-> TRUE, v |-> v]
Err(msg) == [ok |-> FALSE, err |-> msg]

None == [some |-> FALSE]
Some(v) == [some |-> TRUE, v |-> v]

\* HashMap::new() and HashMap::insert
HashMap_new == [n \in {} |-> Value_Nothing]
HashMap_insert(m, key, value) ==
    [n \in DOMAIN m \cup {key} |-> IF n = key THEN value ELSE m[n]]

-----------------------------------------------------------------------------
(* Scope *)

ScopeRecord_new == [variables |-> HashMap_new, commands |-> HashMap_new]

Scope_new == << ScopeRecord_new >>

MaxOf(S) == CHOOSE i \in S : \A j \in S : j <= i

get_variable(recs, name) ==
    LET hits == {i \in 1..Len(recs) : name \in DOMAIN recs[i].variables}
    IN  IF hits = {} THEN None ELSE Some(recs[MaxOf(hits)].variables[name])

get_command(recs, name) ==
    LET hits == {i \in 1..Len(recs) : name \in DOMAIN recs[i].commands}
    IN  IF hits = {} THEN None ELSE Some(recs[MaxOf(hits)].commands[name])

add_variable(recs, name, value) ==
    IF Len(recs) > 0
    THEN [recs EXCEPT ![Len(recs)].variables = HashMap_insert(@, name, value)]
    ELSE recs

add_command(recs, name, internal) ==
    IF Len(recs) > 0
    THEN [recs EXCEPT ![Len(recs)].commands = HashMap_insert(@, name, internal)]
    ELSE recs

enter_record(recs) == Append(recs, ScopeRecord_new)

\* Mutant: pops without looking at the length.
exit_record_Unguarded(recs) == SubSeq(recs, 1, Len(recs) - 1)

exit_record(recs) ==
    IF Len(recs) > 1 THEN SubSeq(recs, 1, Len(recs) - 1) ELSE recs

-----------------------------------------------------------------------------
(* capture_block *)

RECURSIVE capture_loop(_, _, _, _, _)

\* Mutant: a name that does not resolve is left out of the captured mapping.
capture_loop_Skip(b, free, i, captured, recs) ==
    IF i > Len(free)
    THEN Ok(Value_Block(b, captured))
    ELSE LET g == get_variable(recs, free[i])
         IN  IF g.some
             THEN capture_loop(b, free, i + 1,
                               HashMap_insert(captured, free[i], g.v), recs)
             ELSE capture_loop(b, free, i + 1, captured, recs)

\* for free_variable in &free_variables { ... }
capture_loop(b, free, i, captured, recs) ==
    IF i > Len(free)
    THEN Ok(Value_Block(b, captured))
    ELSE LET g == get_variable(recs, free[i])
         IN  IF g.some
             THEN capture_loop(b, free, i + 1,
                               HashMap_insert(captured, free[i], g.v), recs)
             ELSE Err("Unknown variable")

capture_block(b, recs) ==
    capture_loop(b, Block_get_free_variables(b, <<>>), 1, HashMap_new, recs)

-----------------------------------------------------------------------------
(* The programs the host evaluates.  The first group is main()'s own      *)
(* sequence; the others exercise the remaining paths of eval_call.         *)

block == MkBlock(<<"c">>, <<Variable("c")>>)

block2 == MkBlock(<<"d">>,
                  <<Call(<<Bare("add"), Variable("d"), Variable("a")>>)>>)

\* params [a]: the parameter has the name of an outer variable; the body
\* rebinds b and the parameter itself.
shadow == MkBlock(<<"a">>,
                  <<Set("b", Variable("a")), Set("a", Number(5)), Variable("a")>>)

\* params [a] and a free variable b, called while a is bound outside
overlap == MkBlock(<<"a">>,
                   <<Call(<<Bare("add"), Variable("a"), Variable("b")>>)>>)

\* the second command fails when c is not callable; the third is then skipped
failing == MkBlock(<<"c">>,
                   <<Set("b", Number(1)), Call(<<Variable("c")>>), Set("b", Number(2))>>)

\* a Set among the arguments of an unregistered command, then a read
leaky == MkBlock(<<>>,
                 <<Call(<<Bare("ls"), Set("a", Number(1))>>), Variable("a")>>)

\* calls its argument on itself
selfapply == MkBlock(<<"f">>, <<Call(<<Variable("f"), Variable("f")>>)>>)

\* calls the failing block from inside another closure call
outer == MkBlock(<<"c">>, <<Call(<<Block(failing), Variable("c")>>)>>)

\* a nested block reading the parameter of the enclosing one and a free name
nested == MkBlock(<<"c">>,
                  <<Block(MkBlock(<<"d">>, <<Variable("c"), Variable("a")>>))>>)

\* reads the free variable a, then rebinds it
rebind == MkBlock(<<>>, <<Variable("a"), Set("a", Number(5)), Variable("a")>>)

\* fetches its parameter twice and calls it twice
twice == MkBlock(<<"f">>, <<Call(<<Variable("f")>>), Call(<<Variable("f")>>)>>)

MainPrograms ==
    { Number(3),
      Variable("a"),
      Set("b", Number(11)),
      Variable("b"),
      Call(<<Block(block), Number(12)>>),
      Call(<<Bare("add"), Variable("a"), Number(100)>>),
      Set("myblock", Block(block2)),
      Call(<<Variable("myblock"), Number(12)>>),
      Set("a", Number(1100)),
      Call(<<Variable("myblock")>>) }

OtherPrograms ==
    { Call(<<Block(shadow), Number(12)>>),
      Call(<<Block(failing), Number(12)>>),
      Call(<<Block(failing), Block(Block_new)>>),
      Call(<<Bare("ls"), Set("b", Number(11))>>),
      Call(<<Bare("add"), Number(1)>>),
      Call(<<Bare("add"), Number(1), Bare("a")>>),
      Call(<<Bare("add"), Number(1), Number(2), Bare("a")>>),
      Call(<<Bare("add"), Number(IntMax), Number(1)>>),
      Call(<<Number(3), Set("b", Number(11))>>),
      Block(MkBlock(<<>>, <<Variable("a"), Variable("z")>>)),
      Call(<<Variable("myblock"), Set("b", Number(11)), Variable("z")>>),
      Call(<<Variable("myblock"), Set("b", Number(11)), Number(12)>>),
      Set("myblock", Block(leaky)),
      Call(<<Block(selfapply), Block(selfapply)>>),
      Call(<<Call(<<Block(nested), Number(12)>>), Number(3)>>),
      Call(<<Block(outer), Number(12)>>),
      Call(<<Block(overlap), Number(12)>>),
      Set("b", Variable("z")),
      Set("myblock", Block(rebind)),
      Call(<<Block(twice), Block(rebind)>>),
      Call(<<Block(Block_new)>>),
      Call(<<Variable("myblock"), Set("b", Number(13)), Variable("z")>>),
      Call(<<Variable("myblock"), Set("b", Number(14)), Number(12)>>) }

Programs == MainPrograms \cup OtherPrograms

\* the programs whose evaluation does not return: the sum overflows i64, the
\* recursion has no end
AbortingPrograms ==
    { Call(<<Bare("add"), Number(IntMax), Number(1)>>),
      Call(<<Block(selfapply), Block(selfapply)>>) }

ReturningPrograms == Programs \ AbortingPrograms

\* what the host registers before it evaluates (main, lines 259-260)
HostVariables == { <<"a", Value_Int(10)>> }
HostCommands == { <<"add", Internal_Add>> }

-----------------------------------------------------------------------------
(* The machine *)

Idle == [mode |-> "idle"]
Eval(e) == [mode |-> "eval", e |-> e]
Run == [mode |-> "run"]
\* r is the returned Result; at is the source line of the return and d the
\* number of records when the returning call was entered (observations only)
Ret(r, d, at) == [mode |-> "ret", r |-> r, d |-> d, at |-> at]
Abort(why) == [mode |-> "abort", why |-> why]

Top == stack[Len(stack)]
Pop == SubSeq(stack, 1, Len(stack) - 1)
ReplaceTop(fr) == [stack EXCEPT ![Len(stack)] = fr]

NoInput == [b |-> Block_new, known |-> <<>>]
NoOutput == [op |-> "none", free |-> <<>>, known |-> <<>>]

Init ==
    /\ records = Scope_new
    /\ stack = <<>>
    /\ ctrl = Idle
    /\ fvIn = NoInput
    /\ fvOut = NoOutput

(* ---- the host ---- *)

HostAddVariable ==
    /\ ctrl.mode = "idle"
    /\ \E nv \in HostVariables :
          records' = add_variable(records, nv[1], nv[2])
    /\ UNCHANGED <<stack, ctrl, fvIn, fvOut>>

HostAddCommand ==
    /\ ctrl.mode = "idle"
    /\ \E ni \in HostCommands :
          records' = add_command(records, ni[1], ni[2])
    /\ UNCHANGED <<stack, ctrl, fvIn, fvOut>>

HostEnterRecord ==
    /\ ctrl.mode = "idle"
    /\ Len(records) < MaxRecords
    /\ records' = enter_record(records)
    /\ UNCHANGED <<stack, ctrl, fvIn, fvOut>>

HostExitRecord ==
    /\ ctrl.mode = "idle"
    /\ records' = exit_record(records)
    /\ UNCHANGED <<stack, ctrl, fvIn, fvOut>>

\* the host calls eval(p, &mut scope)
HostEval(P) ==
    /\ ctrl.mode = "idle"
    /\ \E p \in P : ctrl' = Eval(p)
    /\ UNCHANGED <<records, stack, fvIn, fvOut>>

\* eval has returned to the host
HostReturn ==
    /\ ctrl.mode = "ret"
    /\ stack = <<>>
    /\ ctrl' = Idle
    /\ UNCHANGED <<records, stack, fvIn, fvOut>>

(* ---- eval: the leaves ---- *)

EvalVariable ==
    /\ ctrl.mode = "eval"
    /\ ctrl.e.k = "Variable"
    /\ LET g == get_variable(records, ctrl.e.name)
       IN  ctrl' = IF g.some
                   THEN Ret(Ok(g.v), Len(records), 237)
                   ELSE Ret(Err("Can not find variable"), Len(records), 239)
    /\ UNCHANGED <<records, stack, fvIn, fvOut>>

EvalNumber ==
    /\ ctrl.mode = "eval"
    /\ ctrl.e.k = "Number"
    /\ ctrl' = Ret(Ok(Value_Int(ctrl.e.n)), Len(records), 242)
    /\ UNCHANGED <<records, stack, fvIn, fvOut>>

EvalBare ==
    /\ ctrl.mode = "eval"
    /\ ctrl.e.k = "Bare"
    /\ ctrl' = Ret(Ok(Value_String(ctrl.e.s)), Len(records), 253)
    /\ UNCHANGED <<records, stack, fvIn, fvOut>>

EvalBlock ==
    /\ ctrl.mode = "eval"
    /\ ctrl.e.k = "Block"
    /\ ctrl' = Ret(capture_block(ctrl.e.b, records), Len(records), 252)
    /\ UNCHANGED <<records, stack, fvIn, fvOut>>

(* ---- eval: Set ---- *)

\* eval(elem, scope) of the right-hand side is entered
EvalSet ==
    /\ ctrl.mode = "eval"
    /\ ctrl.e.k = "Set"
    /\ IF Len(stack) >= MaxStack
       THEN /\ ctrl' = Abort("stack overflow")
            /\ UNCHANGED stack
       ELSE /\ stack' = Append(stack, [pc |-> "Set", name |-> ctrl.e.name,
                                       d |-> Len(records)])
            /\ ctrl' = Eval(ctrl.e.e)
    /\ UNCHANGED <<records, fvIn, fvOut>>

\* if let Ok(v) = ... { add_variable; Ok(Nothing) } else { Err }
SetReturn ==
    /\ ctrl.mode = "ret"
    /\ stack # <<>>
    /\ Top.pc = "Set"
    /\ IF ctrl.r.ok
       THEN /\ records' = add_variable(records, Top.name, ctrl.r.v)
            /\ ctrl' = Ret(Ok(Value_Nothing), Top.d, 246)
       ELSE /\ records' = records
            /\ ctrl' = Ret(Err("Failed to eval rhs"), Top.d, 248)
    /\ stack' = Pop
    /\ UNCHANGED <<fvIn, fvOut>>

(* ---- eval_call ---- *)

\* eval_call is entered: eval(&elems[0], scope)
EvalCall ==
    /\ ctrl.mode = "eval"
    /\ ctrl.e.k = "Call"
    /\ IF Len(stack) >= MaxStack
       THEN /\ ctrl' = Abort("stack overflow")
            /\ UNCHANGED stack
       ELSE /\ stack' = Append(stack, [pc |-> "callee", elems |-> ctrl.e.elems,
                                       d |-> Len(records)])
            /\ ctrl' = Eval(ctrl.e.elems[1])
    /\ UNCHANGED <<records, fvIn, fvOut>>

\* what eval_call does with the value of elems[0]: the frame it goes on
\* with, or the result it returns at once
call_dispatch(fr, r, recs) ==
    IF ~r.ok
    THEN [done |-> TRUE, r |-> r, at |-> 156]
    ELSE IF r.v.t = "Block"
    THEN [done |-> FALSE,
          fr |-> [pc |-> "block_args", elems |-> fr.elems, d |-> fr.d,
                  b |-> r.v.b, captured |-> r.v.captured, args |-> <<>>]]
    ELSE IF r.v.t = "String"
    THEN IF get_command(recs, r.v.s).some
         THEN [done |-> FALSE,
               fr |-> [pc |-> "add_args", elems |-> fr.elems, d |-> fr.d,
                       args |-> <<>>]]
         ELSE [done |-> TRUE, r |-> Ok(Value_String("Ran an external command")),
               at |-> 210]
    ELSE [done |-> TRUE, r |-> Err("Expected a command block"), at |-> 213]

CallCallee ==
    /\ ctrl.mode = "ret"
    /\ stack # <<>>
    /\ Top.pc = "callee"
    /\ LET n == call_dispatch(Top, ctrl.r, records)
       IN  IF n.done
           THEN /\ stack' = Pop
                /\ ctrl' = Ret(n.r, Top.d, n.at)
           ELSE /\ stack' = ReplaceTop(n.fr)
                /\ ctrl' = Run
    /\ UNCHANGED <<records, fvIn, fvOut>>

\* Mutant: the arguments are taken from the last to the first.
CallArgNext_RightToLeft ==
    /\ ctrl.mode = "run"
    /\ Top.pc \in {"block_args", "add_args"}
    /\ Len(Top.args) + 1 < Len(Top.elems)
    /\ ctrl' = Eval(Top.elems[Len(Top.elems) - Len(Top.args)])
    /\ UNCHANGED <<records, stack, fvIn, fvOut>>

\* for elem in elems.iter().skip(1): the next argument is evaluated
CallArgNext ==
    /\ ctrl.mode = "run"
    /\ Top.pc \in {"block_args", "add_args"}
    /\ Len(Top.args) + 1 < Len(Top.elems)
    /\ ctrl' = Eval(Top.elems[Len(Top.args) + 2])
    /\ UNCHANGED <<records, stack, fvIn, fvOut>>

\* args.push(eval(elem, scope)?)
CallArgReturn ==
    /\ ctrl.mode = "ret"
    /\ stack # <<>>
    /\ Top.pc \in {"block_args", "add_args"}
    /\ IF ctrl.r.ok
       THEN /\ stack' = ReplaceTop([Top EXCEPT !.args = Append(@, ctrl.r.v)])
            /\ ctrl' = Run
       ELSE /\ stack' = Pop
            /\ ctrl' = Ret(ctrl.r, Top.d,
                           IF Top.pc = "block_args" THEN 161 ELSE 194)
    /\ UNCHANGED <<records, fvIn, fvOut>>

RECURSIVE bind_params(_, _, _, _)

\* for (arg, param) in args.iter().zip(b.params.iter())
bind_params(recs, args, params, i) ==
    IF i > Len(args) \/ i > Len(params)
    THEN recs
    ELSE bind_params(add_variable(recs, params[i], args[i]), args, params, i + 1)

RECURSIVE bind_captured(_, _, _)

\* for (arg, val) in captured; the keys are distinct, so the order of the
\* HashMap's iteration does not show
bind_captured(recs, captured, todo) ==
    IF todo = {}
    THEN recs
    ELSE LET n == CHOOSE x \in todo : TRUE
         IN  bind_captured(add_variable(recs, n, captured[n]), captured,
                           todo \ {n})

\* Mutant: the captured values are not written into the frame.
call_frame_NoCaptured(recs, b, captured, args) ==
    bind_params(enter_record(recs), args, b.params, 1)

\* Mutant: the bindings go into the caller's record, no record is pushed.
call_frame_NoEnter(recs, b, captured, args) ==
    bind_captured(bind_params(recs, args, b.params, 1),
                  captured, DOMAIN captured)

\* the frame of a closure call: enter_record, parameters, captured values
call_frame(recs, b, captured, args) ==
    bind_captured(bind_params(enter_record(recs), args, b.params, 1),
                  captured, DOMAIN captured)

\* Mutant: too few arguments are let through.
arity_ok_AtMost(args, params) == Len(args) <= Len(params)

\* if args.len() != b.params.len() { return Err }
arity_ok(args, params) == Len(args) = Len(params)

\* all arguments are evaluated: arity check, frame, eval_block is entered
CallBlock ==
    /\ ctrl.mode = "run"
    /\ Top.pc = "block_args"
    /\ Len(Top.args) + 1 = Len(Top.elems)
    /\ IF ~arity_ok(Top.args, Top.b.params)
       THEN /\ stack' = Pop
            /\ ctrl' = Ret(Err("Mismatched number of arguments"), Top.d, 165)
            /\ records' = records
       ELSE /\ records' = call_frame(records, Top.b, Top.captured, Top.args)
            /\ IF Len(stack) >= MaxStack
               THEN /\ ctrl' = Abort("stack overflow")
                    /\ UNCHANGED stack
               ELSE /\ stack' =
                         Append(ReplaceTop([pc |-> "body", elems |-> Top.elems,
                                            d |-> Top.d, b |-> Top.b,
                                            captured |-> Top.captured,
                                            args |-> Top.args,
                                            saved |-> records]),
                                [pc |-> "eval_block", elems |-> Top.b.commands,
                                 i |-> 1, output |-> Value_Nothing,
                                 d |-> Len(records')])
                    /\ ctrl' = Run
    /\ UNCHANGED <<fvIn, fvOut>>

\* i1 + i2 on i64: in range it is the sum; out of range the build either
\* panics (overflow checks on) or wraps (overflow checks off)
wrap(n) == ((n - IntMin) % (IntMax - IntMin + 1)) + IntMin

add_i64(i1, i2) ==
    IF i1 + i2 \in IntMin..IntMax
    THEN {[panic |-> FALSE, n |-> i1 + i2]}
    ELSE {[panic |-> TRUE], [panic |-> FALSE, n |-> wrap(i1 + i2)]}

\* Internal::Add once its arguments are evaluated
internal_add(args) ==
    IF Len(args) # 2
    THEN {[r |-> Err("Mismatched number of arguments"), at |-> 198]}
    ELSE IF args[1].t = "Int" /\ args[2].t = "Int"
    THEN {IF s.panic THEN [panic |-> TRUE]
                     ELSE [r |-> Ok(Value_Int(s.n)), at |-> 204] :
             s \in add_i64(args[1].n, args[2].n)}
    ELSE {[r |-> Err("Add expected integers"), at |-> 205]}

CallAdd ==
    /\ ctrl.mode = "run"
    /\ Top.pc = "add_args"
    /\ Len(Top.args) + 1 = Len(Top.elems)
    /\ \E o \in internal_add(Top.args) :
          IF "panic" \in DOMAIN o
          THEN /\ ctrl' = Abort("attempt to add with overflow")
               /\ UNCHANGED stack
          ELSE /\ ctrl' = Ret(o.r, Top.d, o.at)
               /\ stack' = Pop
    /\ UNCHANGED <<records, fvIn, fvOut>>

\* Mutant: let output = eval_block(..)?; the record is popped on Ok only.
CallExit_OkOnly ==
    /\ ctrl.mode = "ret"
    /\ stack # <<>>
    /\ Top.pc = "body"
    /\ records' = IF ctrl.r.ok THEN exit_record(records) ELSE records
    /\ stack' = Pop
    /\ ctrl' = Ret(ctrl.r, Top.d, 185)
    /\ UNCHANGED <<fvIn, fvOut>>

\* Mutant: the closure keeps its environment by reference: what the body
\* bound to the captured names is written back into the stored closure.
CallExit_WriteBack ==
    /\ ctrl.mode = "ret"
    /\ stack # <<>>
    /\ Top.pc = "body"
    /\ LET fr == records[Len(records)].variables
           old == Value_Block(Top.b, Top.captured)
           new == Value_Block(Top.b,
                              [n \in DOMAIN Top.captured |->
                                  IF n \in DOMAIN fr THEN fr[n]
                                  ELSE Top.captured[n]])
           popped == exit_record(records)
       IN  records' =
             [i \in 1..Len(popped) |->
                [variables |->
                    [n \in DOMAIN popped[i].variables |->
                        IF popped[i].variables[n] = old THEN new
                        ELSE popped[i].variables[n]],
                 commands |-> popped[i].commands]]
    /\ stack' = Pop
    /\ ctrl' = Ret(ctrl.r, Top.d, 185)
    /\ UNCHANGED <<fvIn, fvOut>>

\* scope.exit_record(); output
CallExit ==
    /\ ctrl.mode = "ret"
    /\ stack # <<>>
    /\ Top.pc = "body"
    /\ records' = exit_record(records)
    /\ stack' = Pop
    /\ ctrl' = Ret(ctrl.r, Top.d, 185)
    /\ UNCHANGED <<fvIn, fvOut>>

(* ---- eval_block ---- *)

\* for elem in elems: the next command is evaluated, or Ok(output)
BlockNext ==
    /\ ctrl.mode = "run"
    /\ Top.pc = "eval_block"
    /\ IF Top.i <= Len(Top.elems)
       THEN /\ ctrl' = Eval(Top.elems[Top.i])
            /\ UNCHANGED stack
       ELSE /\ ctrl' = Ret(Ok(Top.output), Top.d, 152)
            /\ stack' = Pop
    /\ UNCHANGED <<records, fvIn, fvOut>>

\* Mutant: an error of a command is dropped and the block goes on.
BlockCmdReturn_Swallow ==
    /\ ctrl.mode = "ret"
    /\ stack # <<>>
    /\ Top.pc = "eval_block"
    /\ stack' = ReplaceTop([Top EXCEPT !.output = IF ctrl.r.ok THEN ctrl.r.v ELSE @,
                                       !.i = @ + 1])
    /\ ctrl' = Run
    /\ UNCHANGED <<records, fvIn, fvOut>>

\* output = eval(elem, scope)?
BlockCmdReturn ==
    /\ ctrl.mode = "ret"
    /\ stack # <<>>
    /\ Top.pc = "eval_block"
    /\ IF ctrl.r.ok
       THEN /\ stack' = ReplaceTop([Top EXCEPT !.output = ctrl.r.v, !.i = @ + 1])
            /\ ctrl' = Run
       ELSE /\ stack' = Pop
            /\ ctrl' = Ret(ctrl.r, Top.d, 149)
    /\ UNCHANGED <<records, fvIn, fvOut>>

(* ---- the free-variable analysis applied to an input ---- *)

FvElems ==
    { Variable("x"), Variable("y"), Number(1), Bare("add"),
      Set("x", Number(1)),
      Set("x", Variable("x")),
      Set("y", Variable("x")),
      Set("x", Set("y", Variable("y"))),
      Call(<<Set("x", Variable("y")), Variable("x")>>),
      Call(<<Variable("x"), Set("x", Number(1))>>),
      Block(MkBlock(<<"x">>, <<Variable("x"), Variable("y")>>)),
      Block(MkBlock(<<>>, <<Set("x", Number(1))>>)) }

FvParams == { <<>>, <<"x">>, <<"y">> }
FvKnown == { <<>>, <<"y">> }

SeqsUpTo(S, n) == UNION {[1..k -> S] : k \in 0..n}

FvInputs ==
    [b : {MkBlock(ps, cs) : ps \in FvParams, cs \in SeqsUpTo(FvElems, MaxCmds)},
     known : FvKnown]

InitFV ==
    /\ records = Scope_new
    /\ stack = <<>>
    /\ ctrl = Idle
    /\ fvIn \in FvInputs
    /\ fvOut = NoOutput

\* block.get_free_variables(&mut known): the caller's vector is cloned
AnalyseBlock ==
    /\ fvOut.op = "none"
    /\ fvOut' = [op |-> "Block",
                 free |-> Block_get_free_variables(fvIn.b, fvIn.known),
                 known |-> fvIn.known]
    /\ UNCHANGED <<records, stack, ctrl, fvIn>>

\* Element::Call(commands).get_free_variables(&mut known)
AnalyseElement ==
    /\ fvOut.op = "none"
    /\ LET r == Element_get_free_variables(Call(fvIn.b.commands), fvIn.known)
       IN  fvOut' = [op |-> "Element", free |-> r.free, known |-> r.known]
    /\ UNCHANGED <<records, stack, ctrl, fvIn>>

-----------------------------------------------------------------------------
(* Specifications *)

EvalStep ==
    \/ EvalVariable
    \/ EvalNumber
    \/ EvalBare
    \/ EvalBlock
    \/ EvalSet
    \/ SetReturn
    \/ EvalCall
    \/ CallCallee
    \/ CallArgNext
    \/ CallArgReturn
    \/ CallBlock
    \/ CallAdd
    \/ CallExit
    \/ BlockNext
    \/ BlockCmdReturn

\* the host of main(): registers a and add, then evaluates
Next ==
    \/ HostAddVariable
    \/ HostAddCommand
    \/ HostEval(Programs)
    \/ HostReturn
    \/ EvalStep

Spec == Init /\ [][Next]_vars

\* the same host, where a step that can be taken is taken: eval runs on
FairSpec == Spec /\ WF_vars(Next)

\* a host that also pushes and pops records itself
NextHost ==
    \/ HostAddVariable
    \/ HostAddCommand
    \/ HostEnterRecord
    \/ HostExitRecord
    \/ HostEval(MainPrograms)
    \/ HostReturn
    \/ EvalStep

SpecHost == Init /\ [][NextHost]_vars

\* a host that goes on for ever evaluating programs that return: every
\* evaluation runs to its end and another one follows
NextReturning ==
    \/ HostAddVariable
    \/ HostAddCommand
    \/ HostEval(ReturningPrograms)
    \/ HostReturn
    \/ EvalStep

SpecReturning == Init /\ [][NextReturning]_vars /\ WF_vars(NextReturning)

\* the free-variable analysis on its own
NextFV ==
    \/ AnalyseBlock
    \/ AnalyseElement

SpecFV == InitFV /\ [][NextFV]_vars

-----------------------------------------------------------------------------
(* Properties *)

\* the machine is at the first command of a closure body: the frame is
\* complete and nothing of the body has run
AtBodyStart ==
    /\ ctrl.mode = "run"
    /\ Len(stack) >= 2
    /\ Top.pc = "eval_block"
    /\ Top.i = 1
    /\ stack[Len(stack) - 1].pc = "body"

\* the eval_call whose body is running
Caller == stack[Len(stack) - 1]

\* eval_block has returned to eval_call, which is about to exit_record
AtBodyEnd ==
    /\ ctrl.mode = "ret"
    /\ stack # <<>>
    /\ Top.pc = "body"

\* C1: a closure reads its free variables as they were when the Block literal
\* was evaluated: when the body of a call starts, every captured name reads
\* as its captured value, whatever the scope binds the name to by then; and
\* main's closure myblock(d) = add(d, a), captured with a = 10, returns 22
\* for the argument 12 whatever a is bound to at the call.
C1_ClosureSnapshot ==
    /\ AtBodyStart =>
          \A x \in DOMAIN Caller.captured :
              get_variable(records, x) = Some(Caller.captured[x])
    /\ ( /\ AtBodyEnd
         /\ Top.b = block2
         /\ Top.captured = ("a" :> Value_Int(10))
         /\ Top.args = <<Value_Int(12)>>
         /\ get_command(records, "add").some )
       => ctrl.r = Ok(Value_Int(22))

\* myblock, captured with a = 10, has been called after a was set to 1100
C1_Witness ==
    /\ AtBodyEnd
    /\ Top.b = block2
    /\ Top.captured = ("a" :> Value_Int(10))
    /\ get_variable(Top.saved, "a") = Some(Value_Int(1100))
    /\ ctrl.r = Ok(Value_Int(22))

\* C2: whenever a call of eval (or eval_block) returns, Ok or Err, the scope
\* holds as many records as when that call was entered.
C2_NoLeakedFrames ==
    ctrl.mode = "ret" => Len(records) = ctrl.d

\* a closure call made from inside another closure's body has returned Err
C2_Witness ==
    /\ ctrl.mode = "ret"
    /\ ctrl.at = 185
    /\ ~ctrl.r.ok
    /\ stack # <<>>
    /\ Top.pc = "eval_block"

\* C3: the scope always holds at least one record, and exit_record on a
\* one-record scope returns the scope as it is.
C3_RootRecordStays ==
    /\ Len(records) >= 1
    /\ Len(records) = 1 => exit_record(records) = records

\* the host can call exit_record on a scope that holds only the root record,
\* and the root has bindings to lose
C3_Witness ==
    /\ ctrl.mode = "idle"
    /\ Len(records) = 1
    /\ DOMAIN records[1].variables # {}
    /\ DOMAIN records[1].commands # {}

\* the argument a parameter name is bound to: the last one, if the name occurs
\* more than once among the parameters
LastIndex(params, p) == MaxOf({i \in 1..Len(params) : params[i] = p})

\* C4: when the body of a closure call starts every parameter reads as its
\* argument, also when an outer record binds the same name; and when the call
\* returns, Ok or Err, the records are exactly the records that were there
\* when the call's frame was pushed.
C4_CallFrameIsolation ==
    /\ [](AtBodyStart =>
            \A p \in Range(Caller.b.params) :
                get_variable(records, p) =
                    Some(Caller.args[LastIndex(Caller.b.params, p)]))
    /\ [][AtBodyEnd => records' = Top.saved]_vars

\* a call whose parameter a is also bound outside is about to return; its
\* body has rebound a and b in the frame
C4_Witness ==
    /\ AtBodyEnd
    /\ Top.b = shadow
    /\ get_variable(Top.saved, "a") = Some(Value_Int(10))
    /\ get_variable(Top.saved, "b") = Some(Value_Int(11))
    /\ get_variable(records, "a") = Some(Value_Int(5))
    /\ get_variable(records, "b") = Some(Value_Int(12))

\* a closure call whose captured mapping has one of the block's own parameters
CollisionCall ==
    \E j \in 1..Len(stack) :
        /\ stack[j].pc = "body"
        /\ DOMAIN stack[j].captured \cap Range(stack[j].b.params) # {}

\* C5 as stated: the collision is reproducible, a host that keeps evaluating
\* programs (among them calls of closures whose parameter is also bound in
\* the scope) reaches a closure call whose captured mapping contains one of
\* its own parameter names.
C5_CollisionReproduced == <>CollisionCall

\* a block whose only parameter is also a captured name, had it been built
collide == MkBlock(<<"c">>, <<Variable("c")>>)

\* C5, amended: eval_call writes the captured values after the parameters
\* into the same record, so a captured name equal to a parameter name would
\* read as the captured value; but no closure called through eval has such a
\* name in its captured mapping, so the frame binds every parameter to its
\* argument and every captured name to its captured value.
C5_NoCollisionThroughEval ==
    /\ get_variable(call_frame(records, collide, ("c" :> Value_Int(1)),
                               <<Value_Int(2)>>), "c") = Some(Value_Int(1))
    /\ ~CollisionCall
    /\ AtBodyStart =>
          LET top == records[Len(records)].variables
          IN  /\ DOMAIN top = Range(Caller.b.params) \cup DOMAIN Caller.captured
              /\ \A n \in DOMAIN Caller.captured : top[n] = Caller.captured[n]

\* a closure with parameter a and a captured name is called while a is bound
\* in the caller's scope
C5_Witness ==
    /\ AtBodyStart
    /\ "a" \in Range(Caller.b.params)
    /\ get_variable(Caller.saved, "a").some
    /\ DOMAIN Caller.captured # {}

\* eval_call has the value of elems[0]: a String that names no command
AtExternalCallee ==
    /\ ctrl.mode = "ret"
    /\ stack # <<>>
    /\ Top.pc = "callee"
    /\ ctrl.r.ok
    /\ ctrl.r.v.t = "String"
    /\ ~get_command(records, ctrl.r.v.s).some

\* C6: a call of an unregistered command does not return before its remaining
\* elements are evaluated, and what it returns is the placeholder value.
C6_ExternalArgsEvaluated ==
    [][AtExternalCallee =>
         IF Len(Top.elems) > 1
         THEN ctrl'.mode # "ret"
         ELSE ctrl'.r = Ok(Value_String("Ran an external command"))]_vars

\* all arguments of a closure call are evaluated and their number is not the
\* number of parameters
AtArityMismatch ==
    /\ ctrl.mode = "run"
    /\ Top.pc = "block_args"
    /\ Len(Top.args) + 1 = Len(Top.elems)
    /\ Len(Top.args) # Len(Top.b.params)

\* C7: a closure call with a wrong number of arguments returns the arity
\* error; no record is pushed and no command of the block is evaluated.
C7_ClosureArity ==
    [][AtArityMismatch =>
         /\ ctrl'.mode = "ret"
         /\ ctrl'.r = Err("Mismatched number of arguments")
         /\ records' = records
         /\ stack' = Pop]_vars

\* a one-parameter closure called with two arguments has returned the error
C7_Witness ==
    /\ ctrl.mode = "ret"
    /\ ctrl.at = 165
    /\ ctrl.r = Err("Mismatched number of arguments")
    /\ get_variable(records, "b") = Some(Value_Int(11))

\* all arguments of a call of Internal::Add are evaluated
AtAdd ==
    /\ ctrl.mode = "run"
    /\ Top.pc = "add_args"
    /\ Len(Top.args) + 1 = Len(Top.elems)

\* C8: Add returns the arity error unless it has two arguments, Ok(Int(a+b))
\* when the two are Int(a) and Int(b), and the type error otherwise.
C8_AddBuiltin ==
    [][AtAdd =>
         /\ ctrl'.mode = "ret"
         /\ ctrl'.r =
              IF Len(Top.args) # 2
              THEN Err("Mismatched number of arguments")
              ELSE IF Top.args[1].t = "Int" /\ Top.args[2].t = "Int"
              THEN Ok(Value_Int(Top.args[1].n + Top.args[2].n))
              ELSE Err("Add expected integers")]_vars

\* the names capture_block looks up for a block
FreeNames(b) == Range(Block_get_free_variables(b, <<>>))

\* C9: evaluating a Block literal leaves the scope as it is and returns a
\* closure exactly when every free variable of the block resolves; the
\* captured mapping then has exactly the free variables as keys, each with
\* the value get_variable gives; otherwise it returns an error.
C9_AllOrNothingCapture ==
    [][(ctrl.mode = "eval" /\ ctrl.e.k = "Block") =>
         /\ records' = records
         /\ stack' = stack
         /\ ctrl'.mode = "ret"
         /\ IF \A n \in FreeNames(ctrl.e.b) : get_variable(records, n).some
            THEN /\ ctrl'.r.ok
                 /\ ctrl'.r.v.t = "Block"
                 /\ ctrl'.r.v.b = ctrl.e.b
                 /\ DOMAIN ctrl'.r.v.captured = FreeNames(ctrl.e.b)
                 /\ \A n \in FreeNames(ctrl.e.b) :
                       ctrl'.r.v.captured[n] = get_variable(records, n).v
            ELSE ~ctrl'.r.ok]_vars

\* a Block literal one of whose free variables resolves and another does not
\* has been evaluated: an error, no closure
C9_Witness ==
    /\ ctrl.mode = "ret"
    /\ ctrl.at = 252
    /\ ctrl.r = Err("Unknown variable")
    /\ get_variable(records, "a").some
    /\ ~get_variable(records, "z").some

RECURSIVE Occurrences(_)
RECURSIVE OccurrencesOfSeq(_, _)

\* the reads (use) and bindings (def) of names in an element without nested
\* blocks, in the order of the traversal: the right-hand side of a Set comes
\* before its binding
Occurrences(e) ==
    CASE e.k = "Variable" -> <<[use |-> TRUE, v |-> e.name]>>
      [] e.k = "Set" -> Occurrences(e.e) \o <<[use |-> FALSE, v |-> e.name]>>
      [] e.k = "Call" -> OccurrencesOfSeq(e.elems, 1)
      [] OTHER -> <<>>

OccurrencesOfSeq(elems, i) ==
    IF i > Len(elems) THEN <<>>
    ELSE Occurrences(elems[i]) \o OccurrencesOfSeq(elems, i + 1)

RECURSIVE HasBlock(_)
HasBlock(e) ==
    CASE e.k = "Block" -> TRUE
      [] e.k = "Set" -> HasBlock(e.e)
      [] e.k = "Call" -> \E i \in 1..Len(e.elems) : HasBlock(e.elems[i])
      [] OTHER -> FALSE

RECURSIVE FreeReads(_, _, _)
\* the reads of occ, from position j on, of a name that is not in bound and
\* has no binding at an earlier position
FreeReads(occ, j, bound) ==
    IF j > Len(occ) THEN <<>>
    ELSE (IF /\ occ[j].use
             /\ occ[j].v \notin bound
             /\ ~\E i \in 1..(j - 1) : ~occ[i].use /\ occ[i].v = occ[j].v
          THEN <<occ[j].v>> ELSE <<>>) \o FreeReads(occ, j + 1, bound)

\* C10: in a command sequence without nested blocks a read of v is reported
\* free iff v is not a parameter, not in the known-set and not bound by a Set
\* earlier in the traversal, the right-hand side of a Set coming before its
\* binding; so [Set(x,1), Variable(x)] reports nothing, [Variable(x),
\* Set(x,1)] reports x and [Set(x, Variable(x))] reports x.
C10_SequentialBinding ==
    LET cmds == fvIn.b.commands
        occ == OccurrencesOfSeq(cmds, 1)
        plain == \A i \in 1..Len(cmds) : ~HasBlock(cmds[i])
    IN  /\ (fvOut.op = "Block" /\ plain) =>
              fvOut.free =
                  FreeReads(occ, 1, Range(fvIn.known) \cup Range(fvIn.b.params))
        /\ (fvOut.op = "Element" /\ plain) =>
              fvOut.free = FreeReads(occ, 1, Range(fvIn.known))
        /\ (fvOut.op = "Block" /\ fvIn.known = <<>> /\ fvIn.b.params = <<>>) =>
              /\ cmds = <<Set("x", Number(1)), Variable("x")>> => fvOut.free = <<>>
              /\ cmds = <<Variable("x"), Set("x", Number(1))>> => fvOut.free = <<"x">>
              /\ cmds = <<Set("x", Variable("x"))>> => fvOut.free = <<"x">>

\* a Set whose right-hand side reads its own name, followed by a read of the
\* name, has been analysed: only the first read is reported
C10_Witness ==
    /\ fvOut.op = "Block"
    /\ fvIn.known = <<>>
    /\ fvIn.b = MkBlock(<<>>, <<Set("x", Variable("x")), Variable("x")>>)
    /\ fvOut.free = <<"x">>

\* the values the state holds that are closures: in the variables of the
\* records, in the frames of eval_call and eval_block, in the value returned
ClosureValues ==
    LET inRecords ==
            UNION {{records[i].variables[n] : n \in DOMAIN records[i].variables} :
                      i \in 1..Len(records)}
        inFrame(fr) ==
            CASE fr.pc \in {"block_args", "body"} ->
                     {Value_Block(fr.b, fr.captured)} \cup Range(fr.args)
                        \cup {fr.captured[n] : n \in DOMAIN fr.captured}
              [] fr.pc = "add_args" -> Range(fr.args)
              [] fr.pc = "eval_block" -> {fr.output}
              [] OTHER -> {}
        inCtrl == IF ctrl.mode = "ret" /\ ctrl.r.ok THEN {ctrl.r.v} ELSE {}
        all == inRecords \cup UNION {inFrame(stack[j]) : j \in 1..Len(stack)}
                  \cup inCtrl
    IN  {v \in all : v.t = "Block"}

\* the closure the evaluation of a Block literal makes in this state, if the
\* machine is about to evaluate one: the block with its free variables as
\* the scope binds them now
NewlyCaptured ==
    IF /\ ctrl.mode = "eval"
       /\ ctrl.e.k = "Block"
       /\ \A n \in FreeNames(ctrl.e.b) : get_variable(records, n).some
    THEN {Value_Block(ctrl.e.b,
                      [n \in FreeNames(ctrl.e.b) |-> get_variable(records, n).v])}
    ELSE {}

\* some closure call is in progress
InBody == \E j \in 1..Len(stack) : stack[j].pc = "body"

\* C11: a closure value is made by the evaluation of its Block literal and
\* never changes afterwards: no step brings a closure value into the state
\* other than the one a Block literal captures at that step; a Set that
\* completes inside a closure body changes the top record only; and every
\* call starts its body with each captured name bound, in the call's own
\* record, to its captured value.
C11_CapturedImmutable ==
    /\ [][ClosureValues' \subseteq ClosureValues \cup NewlyCaptured]_vars
    /\ [][(ctrl.mode = "ret" /\ stack # <<>> /\ Top.pc = "Set" /\ InBody) =>
            /\ Len(records') = Len(records)
            /\ \A i \in 1..(Len(records) - 1) : records'[i] = records[i]]_vars
    /\ [](AtBodyStart =>
            LET top == records[Len(records)].variables
            IN  \A n \in DOMAIN Caller.captured :
                    n \in DOMAIN top /\ top[n] = Caller.captured[n])

\* the closure that rebinds its captured name a is fetched and called a second
\* time, after the first call has set a to 5 in its own record
C11_Witness ==
    /\ AtBodyStart
    /\ Caller.b = rebind
    /\ Len(stack) >= 4
    /\ stack[Len(stack) - 2].pc = "eval_block"
    /\ stack[Len(stack) - 2].i = 2
    /\ stack[Len(stack) - 3].b = twice
    /\ Caller.captured["a"] # Value_Int(5)
    /\ records[Len(records)].variables["a"] = Caller.captured["a"]

\* eval_call, with a closure as callee, is at its arguments (and the process
\* has not aborted)
AtBlockArgs == ctrl.mode # "abort" /\ stack # <<>> /\ Top.pc = "block_args"

\* C12: the arguments of a closure call are evaluated in index order while
\* the scope still has the records it had when the call was entered; a Set
\* that is an argument binds in the top record of the caller; and when an
\* argument fails, or the arity check fails, the error is returned with the
\* records as the evaluated arguments left them.
C12_ArgsInOrderNoRollback ==
    /\ [](AtBlockArgs =>
            /\ Len(records) = Top.d
            /\ ctrl.mode = "eval" => ctrl.e = Top.elems[Len(Top.args) + 2])
    /\ [][(ctrl.mode = "ret" /\ ctrl.r.ok /\ Len(stack) >= 2 /\ Top.pc = "Set"
              /\ stack[Len(stack) - 1].pc = "block_args") =>
            /\ Len(records') = stack[Len(stack) - 1].d
            /\ Top.name \in DOMAIN records'[Len(records')].variables
            /\ records'[Len(records')].variables[Top.name] = ctrl.r.v]_vars
    /\ [][(AtBlockArgs /\ ctrl.mode = "ret" /\ ~ctrl.r.ok) =>
            /\ ctrl'.mode = "ret"
            /\ ctrl'.r = ctrl.r
            /\ records' = records]_vars
    /\ [][AtArityMismatch =>
            /\ ctrl'.mode = "ret"
            /\ ~ctrl'.r.ok
            /\ records' = records]_vars

\* the second argument of a closure call has failed after the first, a Set,
\* bound b to 13: the error is returned and b is still 13
C12_Witness ==
    /\ ctrl.mode = "ret"
    /\ ctrl.at = 161
    /\ ctrl.r = Err("Can not find variable")
    /\ stack = <<>>
    /\ records[Len(records)].variables["b"] = Value_Int(13)

\* eval is entered by the host on the closure that calls its argument on
\* itself, applied to itself
AtSelfApplication ==
    /\ stack = <<>>
    /\ ctrl = Eval(Call(<<Block(selfapply), Block(selfapply)>>))

\* C13: every call of eval eventually returns Ok or Err; in particular the
\* call of eval on a closure that is passed to itself and called from its own
\* body eventually returns to the host.
C13_EvalTerminates ==
    AtSelfApplication ~> (ctrl.mode = "ret" /\ stack = <<>>)

\* eval_block is running the commands of a closure body (and the process
\* has not aborted)
AtBlock == ctrl.mode # "abort" /\ stack # <<>> /\ Top.pc = "eval_block"

\* C14: a closure call with matching arity returns what eval_block returns:
\* the value of the last command, or Nothing for a block without commands.
\* The commands are evaluated in sequence order, each in the record of the
\* call; the value of a command replaces the output; an error of a command
\* ends the block, no later command is evaluated, and the call returns that
\* error.
C14_BlockResult ==
    /\ [](AtBlock =>
            /\ Caller.pc = "body"
            /\ Len(records) = Caller.d + 1
            /\ Top.elems = Caller.b.commands
            /\ Top.i = 1 => Top.output = Value_Nothing
            /\ ctrl.mode = "eval" => ctrl.e = Top.elems[Top.i])
    /\ [][(AtBlock /\ ctrl.mode = "ret" /\ ctrl.r.ok) =>
            /\ stack' = ReplaceTop([Top EXCEPT !.output = ctrl.r.v,
                                               !.i = Top.i + 1])
            /\ ctrl'.mode = "run"]_vars
    /\ [][(AtBlock /\ ctrl.mode = "ret" /\ ~ctrl.r.ok) =>
            /\ stack' = Pop
            /\ ctrl'.mode = "ret"
            /\ ctrl'.r = ctrl.r]_vars
    /\ [][(AtBlock /\ ctrl.mode = "run" /\ Top.i > Len(Top.elems)) =>
            /\ stack' = Pop
            /\ ctrl'.mode = "ret"
            /\ ctrl'.r = Ok(Top.output)]_vars
    /\ [][AtBodyEnd =>
            /\ ctrl'.mode = "ret"
            /\ ctrl'.r = ctrl.r
            /\ stack' = Pop]_vars
    /\ [](AtBodyEnd =>
            /\ Top.b = Block_new => ctrl.r = Ok(Value_Nothing)
            /\ Top.b = shadow => ctrl.r = Ok(Value_Int(5))
            /\ Top.b = rebind => ctrl.r = Ok(Value_Int(5))
            /\ (Top.b = failing /\ Top.args[1].t # "Block") =>
                  /\ ctrl.r = Err("Expected a command block")
                  /\ records[Len(records)].variables["b"] = Value_Int(1))

\* the second command of the block failing has failed after the first bound
\* b to 1: the body has ended with the error, and b is 1, not 2
C14_Witness ==
    /\ AtBodyEnd
    /\ Top.b = failing
    /\ ~ctrl.r.ok
    /\ records[Len(records)].variables["b"] = Value_Int(1)

RECURSIVE OccurrencesNested(_)
RECURSIVE OccurrencesNestedOfSeq(_, _)

\* the reads and bindings of names in an element, nested blocks included: a
\* nested block counts as a read of each name that is free in it by itself
\* (not one of its params, not bound by an earlier Set inside it) and as no
\* binding at all
OccurrencesNested(e) ==
    CASE e.k = "Variable" -> <<[use |-> TRUE, v |-> e.name]>>
      [] e.k = "Set" ->
            OccurrencesNested(e.e) \o <<[use |-> FALSE, v |-> e.name]>>
      [] e.k = "Call" -> OccurrencesNestedOfSeq(e.elems, 1)
      [] e.k = "Block" ->
            LET inner == FreeReads(OccurrencesNestedOfSeq(e.b.commands, 1), 1,
                                   Range(e.b.params))
            IN  [j \in 1..Len(inner) |-> [use |-> TRUE, v |-> inner[j]]]
      [] OTHER -> <<>>

OccurrencesNestedOfSeq(elems, i) ==
    IF i > Len(elems) THEN <<>>
    ELSE OccurrencesNested(elems[i]) \o OccurrencesNestedOfSeq(elems, i + 1)

IsBinding(o) == ~o.use

\* the names the occurrences bind, in order
BoundNames(occ) ==
    LET defs == SelectSeq(occ, IsBinding)
    IN  [j \in 1..Len(defs) |-> defs[j].v]

\* a block with parameter x that reads x and y
ReadsParamAndFree == Block(MkBlock(<<"x">>, <<Variable("x"), Variable("y")>>))

\* a block that binds x by a Set
BindsInside == Block(MkBlock(<<>>, <<Set("x", Number(1))>>))

\* C15: a nested Block element reports the names free in the nested block
\* that the caller's known-set at that point does not hold, and leaves the
\* caller's known-set as it was: after the analysis the known-set has grown
\* by the names of the Sets outside nested blocks only, and a later sibling
\* that reads a parameter of the nested block, or a name bound by a Set
\* inside it, is reported free.
C15_NestedBlockFreeVariables ==
    LET cmds == fvIn.b.commands
        occ == OccurrencesNestedOfSeq(cmds, 1)
        hasNested == \E i \in 1..Len(cmds) : HasBlock(cmds[i])
    IN  /\ (fvOut.op = "Block" /\ hasNested) =>
              fvOut.free =
                  FreeReads(occ, 1, Range(fvIn.known) \cup Range(fvIn.b.params))
        /\ (fvOut.op = "Element" /\ hasNested) =>
              /\ fvOut.free = FreeReads(occ, 1, Range(fvIn.known))
              /\ fvOut.known = fvIn.known \o BoundNames(OccurrencesOfSeq(cmds, 1))
        /\ (fvOut.op = "Element" /\ fvIn.known = <<>>) =>
              /\ cmds = <<ReadsParamAndFree, Variable("x")>> =>
                    fvOut.free = <<"y", "x">> /\ fvOut.known = <<>>
              /\ cmds = <<BindsInside, Variable("x")>> =>
                    fvOut.free = <<"x">> /\ fvOut.known = <<>>
              /\ cmds = <<Set("x", Number(1)), ReadsParamAndFree>> =>
                    fvOut.free = <<"y">> /\ fvOut.known = <<"x">>

\* a nested block with parameter x, followed by a read of x, has been
\* analysed: the known-set is as before and the later x is reported free
C15_Witness ==
    /\ fvOut.op = "Element"
    /\ fvIn.known = <<>>
    /\ fvIn.b.commands = <<ReadsParamAndFree, Variable("x")>>
    /\ fvOut.free = <<"y", "x">>
    /\ fvOut.known = <<>>

\* C16: the captured mapping of a closure made by the evaluation of a Block
\* literal has none of the block's parameter names as a key, and so has every
\* closure value of the state; hence when the body of a call starts, every
\* parameter is bound in the record of the call to its argument.
C16_CapturedDisjointFromParams ==
    /\ [][(ctrl.mode = "eval" /\ ctrl.e.k = "Block" /\ ctrl'.mode = "ret"
              /\ ctrl'.r.ok) =>
            /\ ctrl'.r.v.t = "Block"
            /\ ctrl'.r.v.b = ctrl.e.b
            /\ DOMAIN ctrl'.r.v.captured \cap Range(ctrl.e.b.params) = {}]_vars
    /\ [](\A v \in ClosureValues :
              DOMAIN v.captured \cap Range(v.b.params) = {})
    /\ [](AtBodyStart =>
            LET top == records[Len(records)].variables
            IN  \A p \in Range(Caller.b.params) :
                    /\ p \in DOMAIN top
                    /\ top[p] = Caller.args[LastIndex(Caller.b.params, p)])

\* a Block literal with parameter a and free variable b has been evaluated
\* while the scope binds both a and b: the closure has captured b only
C16_Witness ==
    /\ ctrl.mode = "ret"
    /\ ctrl.at = 252
    /\ ctrl.r.ok
    /\ ctrl.r.v.b = overlap
    /\ DOMAIN ctrl.r.v.captured = {"b"}
    /\ get_variable(records, "a").some

\* C17: the body of a closure call never reads a variable from a caller's
\* record: whenever a Variable is evaluated while a closure call is in
\* progress, the name is bound in the record of the innermost call; also for
\* a body with a Set among the arguments of a Call of an unregistered command
\* name, followed by a read of the variable.
C17_LexicalIsolation ==
    (ctrl.mode = "eval" /\ ctrl.e.k = "Variable" /\ InBody) =>
        ctrl.e.name \in DOMAIN records[Len(records)].variables

\* Add has its two arguments, both Int, and their sum is not an i64
AtAddOverflow ==
    /\ AtAdd
    /\ Len(Top.args) = 2
    /\ Top.args[1].t = "Int"
    /\ Top.args[2].t = "Int"
    /\ Top.args[1].n + Top.args[2].n \notin IntMin..IntMax

\* C18: Add on two Int arguments whose sum lies outside the i64 range still
\* returns a Result to eval_call's caller; the evaluation never aborts.
C18_AddOverflowReturns ==
    [][AtAddOverflow => (ctrl'.mode = "ret" /\ stack' = Pop)]_vars

====
